---- MODULE Spec2Model ----
(***************************************************************************)
(* ERPNext CRM Settings: the integration glue between the CRM and ERPNext. *)
(* Model of crm/fcrm/doctype/erpnext_crm_settings/erpnext_crm_settings.py: *)
(* the validate hook of the settings document, get_quotation_url and the   *)
(* deal-update handler create_customer_in_erpnext, together with the local *)
(* database tables, the local and the remote ERPNext and the error log     *)
(* they act on.                                                            *)
(***************************************************************************)
EXTENDS Naturals, Sequences, FiniteSets, TLC

VARIABLES
    settings,         \* the stored "ERPNext CRM Settings" single
    installed_apps,   \* frappe.get_installed_apps()
    propertySetters,  \* table "Property Setter": set of documents
    formScripts,      \* table "CRM Form Script": set of documents
    erpLocal,         \* what the in-process ERPNext API has committed
    erpRemote,        \* what the remote ERPNext API has committed
    errorLog,         \* table "Error Log": sequence of entries, oldest first
    psMade,           \* history: number of make_property_setter calls so far
    fsInserted,       \* history: number of CRM Form Script inserts so far
    lastOp            \* the last operation: its inputs, calls and outcome

vars == <<settings, installed_apps, propertySetters, formScripts, erpLocal,
          erpRemote, errorLog, psMade, fsInserted, lastOp>>

----------------------------------------------------------------------------
(* Bounds of the model *)

\* the error log holds at most this many entries
MaxLog == 1
\* make_property_setter and insert are each called at most this many times
MaxMade == 2

----------------------------------------------------------------------------
(* Data the operations are run on *)

SiteUrl == "https://erp.example.com"
LocalUrl == "https://crm.example.com"

\* the names of the CRM Deal documents
DealIds == {"DEAL-001"}
\* a name that is no CRM Deal
MissingDeal == "DEAL-404"
Organizations == {"Acme", "Globex"}
Statuses == {"Open", "Lost", "won", "Won"}
\* identifiers the remote site gives the prospects it creates
ProspectIds == {"PROSPECT-A", "PROSPECT-B"}
\* texts of the exceptions a failing call raises
ExcTexts == {"ConnectionError: timed out", "HTTP 417: duplicate name"}
DoesNotExistText == "DoesNotExistError: CRM Deal not found"

Contact(id, full_name, primary) ==
    [contact |-> id, full_name |-> full_name, email |-> id \o "@example.com",
     mobile_no |-> "", gender |-> "", is_primary |-> primary,
     owner |-> "Administrator", idx |-> "1"]

\* frappe.get_doc("CRM Deal", name) for the deals that exist
DealDoc(name) ==
    [name |-> name,
     organization |-> "Acme",
     lead_name |-> "Lead of " \o name,
     no_of_employees |-> "11-50",
     deal_owner |-> "sales@example.com",
     territory |-> "All Territories",
     industry |-> "Software",
     website |-> "example.com",
     annual_revenue |-> "1000",
     currency |-> "USD",
     status |-> "Open",
     contacts |-> <<Contact("c1", "Ann", "1"), Contact("c2", "Bob", "0")>>]

\* how a call to the local or the remote ERPNext API can end: it returns (a
\* value among values) or it raises, and a call that raises may have committed
\* its effect before that
Outcomes(values) ==
    [ok : {TRUE}, committed : {TRUE}, exc : {""}, value : values]
    \cup [ok : {FALSE}, committed : BOOLEAN, exc : ExcTexts, value : {""}]

\* the outcome handed to an operation that makes no such call
NoCall == [ok |-> TRUE, committed |-> FALSE, exc |-> "", value |-> ""]

----------------------------------------------------------------------------
(* The state an operation works on, threaded through its steps *)

\* the state at the start of an operation: nothing called, nothing raised
World ==
    [propertySetters |-> propertySetters, formScripts |-> formScripts,
     erpLocal |-> erpLocal, erpRemote |-> erpRemote, errorLog |-> errorLog,
     psMade |-> psMade, fsInserted |-> fsInserted,
     calls |-> <<>>, raised |-> FALSE, msg |-> "", exc |-> "", ret |-> "",
     url |-> <<>>]

NoArgs == [k \in {} |-> ""]

\* a call made by an operation: to the framework ("frappe"), to the local
\* database ("db"), to the in-process ERPNext API ("local") or to the API of a
\* remote site ("remote")
Call(backend, method, args) ==
    [backend |-> backend, site |-> "", method |-> method, args |-> args]

\* get_erpnext_site_client: a FrappeClient for the site of the settings
get_erpnext_site_client(erpnext_crm_settings) ==
    [site_url |-> erpnext_crm_settings.erpnext_site_url,
     api_key |-> erpnext_crm_settings.api_key,
     api_secret |-> erpnext_crm_settings.api_secret]

\* client.post_api(method, args)
PostApi(client, method, args) ==
    [backend |-> "remote", site |-> client.site_url, method |-> method,
     args |-> args]

\* frappe.throw(msg): the operation ends with the user-visible message msg
Throw(w, msg) == [w EXCEPT !.raised = TRUE, !.msg = msg]

\* frappe.log_error(traceback, title): one entry appended to the error log
LogError(w, traceback, title) ==
    [w EXCEPT !.errorLog = Append(@, [title |-> title, traceback |-> traceback])]

\* frappe.db.exists(doctype, name) on a table held as a set of documents
Exists(table, name) == \E doc \in table : doc.name = name

----------------------------------------------------------------------------
(* ERPNextCRMSettings.validate and its four steps *)

NotInstalledMsg == "ERPNext is not installed in the current site"

\* variant: the installed apps are not looked at
validate_if_erpnext_installed_unchecked(self, apps, w) == w

validate_if_erpnext_installed(self, apps, w) ==
    IF self.is_erpnext_in_the_current_site
    THEN LET w1 == [w EXCEPT !.calls =
                        Append(@, Call("frappe", "get_installed_apps", NoArgs))]
         IN IF "erpnext" \notin apps THEN Throw(w1, NotInstalledMsg) ELSE w1
    ELSE w

QuotationFilterName == "Quotation-quotation_to-link_filters"
\* the doctypes the link filter lets quotation_to name
QuotationToOptions == <<"Customer", "Lead", "Prospect", "Frappe CRM Deal">>

\* make_property_setter: a Property Setter named doctype-fieldname-property
make_property_setter(w, doctype, fieldname, property, value, property_type) ==
    LET doc == [name |-> doctype \o "-" \o fieldname \o "-" \o property,
                doc_type |-> doctype, field_name |-> fieldname,
                property |-> property, value |-> value,
                property_type |-> property_type]
    IN [w EXCEPT !.propertySetters =
                     {d \in @ : d.name # doc.name} \cup {doc},
                 !.psMade = @ + 1,
                 !.calls = Append(@, Call("db", "make_property_setter",
                                          [name |-> doc.name]))]

\* variant: the property setter is made without asking whether it exists
add_quotation_to_option_unguarded(self, w) ==
    IF self.is_erpnext_in_the_current_site
    THEN make_property_setter(w, "Quotation", "quotation_to", "link_filters",
                              QuotationToOptions, "JSON")
    ELSE w

add_quotation_to_option(self, w) ==
    IF self.is_erpnext_in_the_current_site
       /\ ~Exists(w.propertySetters, QuotationFilterName)
    THEN make_property_setter(w, "Quotation", "quotation_to", "link_filters",
                              QuotationToOptions, "JSON")
    ELSE w

CustomFieldsMethod == "erpnext.crm.frappe_crm_api.create_custom_fields_for_frappe_crm"

\* the in-process create_custom_fields_for_frappe_crm(): an exception it
\* raises is not caught and reaches the user as it is
create_custom_fields_local(w, out) ==
    LET w1 == [w EXCEPT !.calls = Append(@, Call("local", CustomFieldsMethod, NoArgs)),
                        !.erpLocal.custom_fields = @ \/ out.committed]
    IN IF out.ok THEN w1
       ELSE [Throw(w1, out.exc) EXCEPT !.exc = out.exc]

CustomFieldsErrorMsg ==
    "Error while creating custom field in ERPNext, check error log for more details"

create_custom_fields_in_remote_site(self, w, out) ==
    LET client == get_erpnext_site_client(self)
        w1 == [w EXCEPT !.calls = Append(@, PostApi(client, CustomFieldsMethod, NoArgs)),
                        !.erpRemote.custom_fields = @ \/ out.committed]
    IN IF out.ok THEN w1
       ELSE Throw(LogError([w1 EXCEPT !.exc = out.exc], out.exc,
                    "Error while creating custom field in the remote erpnext site: "
                        \o self.erpnext_site_url),
                  CustomFieldsErrorMsg)

create_custom_fields(self, w, out) ==
    IF self.is_erpnext_in_the_current_site
    THEN create_custom_fields_local(w, out)
    ELSE create_custom_fields_in_remote_site(self, w, out)

FormScriptName == "Create Quotation from CRM Deal"
\* the script body get_crm_form_script() returns
get_crm_form_script == "setupForm: Create Quotation -> get_quotation_url"
\* a body stored by an earlier release or edited by a user
StaleFormScript == "setupForm: edited"

\* variant: the stored script is brought up to date when it differs
create_crm_form_script_reconciling(w) ==
    IF \A doc \in w.formScripts :
           doc.name = FormScriptName => doc.script # get_crm_form_script
    THEN [w EXCEPT !.formScripts =
                       {doc \in @ : doc.name # FormScriptName} \cup
                       {[name |-> FormScriptName, dt |-> "CRM Deal",
                         view |-> "Form", script |-> get_crm_form_script,
                         enabled |-> "1", is_standard |-> "1"]},
                   !.fsInserted = @ + 1,
                   !.calls = Append(@, Call("db", "insert", [name |-> FormScriptName]))]
    ELSE w

create_crm_form_script(w) ==
    IF ~Exists(w.formScripts, FormScriptName)
    THEN [w EXCEPT !.formScripts = @ \cup
                       {[name |-> FormScriptName, dt |-> "CRM Deal",
                         view |-> "Form", script |-> get_crm_form_script,
                         enabled |-> "1", is_standard |-> "1"]},
                   !.fsInserted = @ + 1,
                   !.calls = Append(@, Call("db", "insert", [name |-> FormScriptName]))]
    ELSE w

\* variant: the form script is created before the custom fields
validate_form_script_first(self, apps, w, out) ==
    IF ~self.enabled THEN w
    ELSE LET w1 == validate_if_erpnext_installed(self, apps, w) IN
         IF w1.raised THEN w1
         ELSE LET w2 == add_quotation_to_option(self, w1)
                  w3 == create_crm_form_script(w2)
              IN create_custom_fields(self, w3, out)

\* variant: the steps run whether or not the integration is enabled
validate_always(self, apps, w, out) ==
    LET w1 == validate_if_erpnext_installed(self, apps, w) IN
    IF w1.raised THEN w1
    ELSE LET w2 == add_quotation_to_option(self, w1)
             w3 == create_custom_fields(self, w2, out) IN
         IF w3.raised THEN w3
         ELSE create_crm_form_script(w3)

validate(self, apps, w, out) ==
    IF ~self.enabled THEN w
    ELSE LET w1 == validate_if_erpnext_installed(self, apps, w) IN
         IF w1.raised THEN w1
         ELSE LET w2 == add_quotation_to_option(self, w1)
                  w3 == create_custom_fields(self, w2, out) IN
              IF w3.raised THEN w3
              ELSE create_crm_form_script(w3)

----------------------------------------------------------------------------
(* get_contacts and the payloads *)

get_contacts(doc) ==
    [i \in 1..Len(doc.contacts) |->
        [contact |-> doc.contacts[i].contact,
         full_name |-> doc.contacts[i].full_name,
         email |-> doc.contacts[i].email,
         mobile_no |-> doc.contacts[i].mobile_no,
         gender |-> doc.contacts[i].gender,
         is_primary |-> doc.contacts[i].is_primary]]

json_dumps_contact(c) ==
    "{contact: " \o c.contact \o ", full_name: " \o c.full_name
        \o ", email: " \o c.email \o ", mobile_no: " \o c.mobile_no
        \o ", gender: " \o c.gender \o ", is_primary: " \o c.is_primary \o "}"

RECURSIVE json_dumps_items(_)
json_dumps_items(contacts) ==
    IF contacts = <<>> THEN ""
    ELSE IF Len(contacts) = 1 THEN json_dumps_contact(Head(contacts))
    ELSE json_dumps_contact(Head(contacts)) \o ", " \o json_dumps_items(Tail(contacts))

\* json.dumps of a list of contacts
json_dumps(contacts) == "[" \o json_dumps_items(contacts) \o "]"

----------------------------------------------------------------------------
(* get_quotation_url and create_prospect_in_remote_site *)

NotIntegratedMsg == "ERPNext is not integrated with the CRM"
ProspectMethod == "erpnext.crm.frappe_crm_api.create_prospect_against_crm_deal"
ProspectErrorMsg ==
    "Error while creating prospect in ERPNext, check error log for more details"

\* frappe.utils.get_url_to_form(doctype): the form of a doctype on this site
get_url_to_form(doctype) ==
    IF doctype = "Quotation" THEN LocalUrl \o "/app/quotation"
    ELSE LocalUrl \o "/app/" \o doctype

\* the f-strings of get_quotation_url, cut at the separators of a URL:
\* base/new ? key = value & key = value & key = value
\* variant: the party is named by the organization
quotation_url_in_current_site_by_organization(crm_deal, organization) ==
    <<get_url_to_form("Quotation") \o "/new", "?",
      "quotation_to", "=", "CRM Deal", "&",
      "crm_deal", "=", crm_deal, "&",
      "party_name", "=", organization>>

quotation_url_in_current_site(crm_deal, organization) ==
    <<get_url_to_form("Quotation") \o "/new", "?",
      "quotation_to", "=", "CRM Deal", "&",
      "crm_deal", "=", crm_deal, "&",
      "party_name", "=", crm_deal>>

\* variant: the party is named by the deal, as for the current site
quotation_url_in_remote_site_by_deal(site_url, crm_deal, prospect) ==
    <<site_url \o "/app/quotation" \o "/new", "?",
      "quotation_to", "=", "Prospect", "&",
      "crm_deal", "=", crm_deal, "&",
      "party_name", "=", crm_deal>>

quotation_url_in_remote_site(site_url, crm_deal, prospect) ==
    <<site_url \o "/app/quotation" \o "/new", "?",
      "quotation_to", "=", "Prospect", "&",
      "crm_deal", "=", crm_deal, "&",
      "party_name", "=", prospect>>

prospect_payload(doc, contacts, erpnext_crm_settings) ==
    [organization |-> doc.organization,
     lead_name |-> doc.lead_name,
     no_of_employees |-> doc.no_of_employees,
     deal_owner |-> doc.deal_owner,
     crm_deal |-> doc.name,
     territory |-> doc.territory,
     industry |-> doc.industry,
     website |-> doc.website,
     annual_revenue |-> doc.annual_revenue,
     contacts |-> json_dumps(contacts),
     erpnext_company |-> erpnext_crm_settings.erpnext_company]

\* the message a failed remote call leaves the user with
prospect_error_message(exc) == ProspectErrorMsg

create_prospect_in_remote_site(crm_deal, erpnext_crm_settings, w, out) ==
    LET client == get_erpnext_site_client(erpnext_crm_settings)
        title == "Error while creating prospect in remote site: "
                     \o erpnext_crm_settings.erpnext_site_url
    IN IF crm_deal \notin DealIds
       THEN \* frappe.get_doc raises inside the try block: nothing is posted
            Throw(LogError([w EXCEPT !.exc = DoesNotExistText],
                           DoesNotExistText, title),
                  prospect_error_message(DoesNotExistText))
       ELSE LET doc == DealDoc(crm_deal)
                contacts == get_contacts(doc)
                w1 == [w EXCEPT
                         !.calls = Append(@, PostApi(client, ProspectMethod,
                                     prospect_payload(doc, contacts, erpnext_crm_settings))),
                         !.erpRemote.prospects =
                             IF out.committed THEN @ \cup {doc.name} ELSE @]
            IN IF out.ok THEN [w1 EXCEPT !.ret = out.value]
               ELSE Throw(LogError([w1 EXCEPT !.exc = out.exc], out.exc, title),
                          prospect_error_message(out.exc))

get_quotation_url(crm_deal, organization, erpnext_crm_settings, w, out) ==
    IF ~erpnext_crm_settings.enabled THEN Throw(w, NotIntegratedMsg)
    ELSE IF erpnext_crm_settings.is_erpnext_in_the_current_site
    THEN [w EXCEPT !.url = quotation_url_in_current_site(crm_deal, organization)]
    ELSE LET site_url == erpnext_crm_settings.erpnext_site_url
             w1 == create_prospect_in_remote_site(crm_deal, erpnext_crm_settings, w, out)
         IN IF w1.raised THEN w1
            ELSE [w1 EXCEPT !.url =
                     quotation_url_in_remote_site(site_url, crm_deal, w1.ret)]

----------------------------------------------------------------------------
(* create_customer_in_erpnext and create_customer_in_remote_site *)

CustomerMethod == "erpnext.crm.frappe_crm_api.create_customer"
CustomerErrorMsg ==
    "Error while creating customer in ERPNext, check error log for more details"

\* variant: the status is compared without regard to case
customer_is_due_any_case(erpnext_crm_settings, doc) ==
    ~(~erpnext_crm_settings.enabled \/ doc.status \notin {"Won", "won"})

\* the negation of the early return of create_customer_in_erpnext
customer_is_due(erpnext_crm_settings, doc) ==
    ~(~erpnext_crm_settings.enabled \/ doc.status # "Won")

customer_payload(doc, contacts) ==
    [customer_name |-> doc.organization,
     customer_group |-> "All Customer Groups",
     customer_type |-> "Company",
     territory |-> doc.territory,
     default_currency |-> doc.currency,
     industry |-> doc.industry,
     website |-> doc.website,
     crm_deal |-> doc.name,
     contacts |-> json_dumps(contacts)]

\* the in-process create_customer(customer): an exception it raises is not
\* caught and reaches the caller as it is
create_customer_local(customer, w, out) ==
    LET w1 == [w EXCEPT !.calls = Append(@, Call("local", CustomerMethod, customer)),
                        !.erpLocal.customers =
                            IF out.committed THEN @ \cup {customer.crm_deal} ELSE @]
    IN IF out.ok THEN w1
       ELSE [Throw(w1, out.exc) EXCEPT !.exc = out.exc]

\* variant: the user is shown the text of the exception
customer_error_message_with_cause(exc) == CustomerErrorMsg \o ": " \o exc

\* the message a failed remote call leaves the user with
customer_error_message(exc) == CustomerErrorMsg

create_customer_in_remote_site(customer, erpnext_crm_settings, w, out) ==
    LET client == get_erpnext_site_client(erpnext_crm_settings)
        w1 == [w EXCEPT !.calls = Append(@, PostApi(client, CustomerMethod, customer)),
                        !.erpRemote.customers =
                            IF out.committed THEN @ \cup {customer.crm_deal} ELSE @]
    IN IF out.ok THEN w1
       ELSE Throw(LogError([w1 EXCEPT !.exc = out.exc], out.exc,
                           "Error while creating customer in remote site"),
                  customer_error_message(out.exc))

create_customer_in_erpnext(doc, erpnext_crm_settings, w, out) ==
    IF ~customer_is_due(erpnext_crm_settings, doc) THEN w
    ELSE LET contacts == get_contacts(doc)
             customer == customer_payload(doc, contacts)
         IN IF erpnext_crm_settings.is_erpnext_in_the_current_site
            THEN create_customer_local(customer, w, out)
            ELSE create_customer_in_remote_site(customer, erpnext_crm_settings, w, out)

----------------------------------------------------------------------------
(* The state machine *)

DefaultSettings ==
    [enabled |-> FALSE, is_erpnext_in_the_current_site |-> FALSE,
     erpnext_site_url |-> SiteUrl, api_key |-> "key", api_secret |-> "secret",
     erpnext_company |-> "Example Co"]

StaleFormScriptDoc ==
    [name |-> FormScriptName, dt |-> "CRM Deal", view |-> "Form",
     script |-> StaleFormScript, enabled |-> "1", is_standard |-> "1"]

NoOp ==
    [op |-> "none", enabled |-> FALSE, colocated |-> FALSE, crm_deal |-> "",
     organization |-> "", status |-> "", raised |-> FALSE, msg |-> "",
     exc |-> "", ret |-> "", url |-> <<>>, calls |-> <<>>, logged |-> <<>>]

Init ==
    /\ settings = DefaultSettings
    /\ installed_apps \in {{"frappe", "crm"}, {"frappe", "crm", "erpnext"}}
    /\ propertySetters = {}
    /\ formScripts \in {{}, {StaleFormScriptDoc}}
    /\ erpLocal = [custom_fields |-> FALSE, customers |-> {}]
    /\ erpRemote = [custom_fields |-> FALSE, prospects |-> {}, customers |-> {}]
    /\ errorLog = <<>>
    /\ psMade = 0
    /\ fsInserted = 0
    /\ lastOp = NoOp

\* the state an operation leaves behind, and what the operation was
Finish(w, op) ==
    /\ Len(w.errorLog) <= MaxLog
    /\ w.psMade <= MaxMade
    /\ w.fsInserted <= MaxMade
    /\ propertySetters' = w.propertySetters
    /\ formScripts' = w.formScripts
    /\ erpLocal' = w.erpLocal
    /\ erpRemote' = w.erpRemote
    /\ errorLog' = w.errorLog
    /\ psMade' = w.psMade
    /\ fsInserted' = w.fsInserted
    /\ lastOp' = [op EXCEPT !.raised = w.raised, !.msg = w.msg, !.exc = w.exc,
                            !.ret = w.ret, !.url = w.url, !.calls = w.calls,
                            !.logged = SubSeq(w.errorLog, Len(errorLog) + 1,
                                              Len(w.errorLog))]

\* the settings document is saved with the given flags: validate runs on the
\* document being saved, which is stored when validate raises nothing
Validate(enabled, colocated, out) ==
    LET self == [settings EXCEPT !.enabled = enabled,
                                 !.is_erpnext_in_the_current_site = colocated]
        w == validate(self, installed_apps, World, out)
    IN /\ Finish(w, [NoOp EXCEPT !.op = "validate", !.enabled = enabled,
                                 !.colocated = colocated])
       /\ settings' = IF w.raised THEN settings ELSE self
       /\ UNCHANGED installed_apps

\* the "Create Quotation" action of the deal form calls get_quotation_url
GetQuotationUrl(crm_deal, organization, out) ==
    LET w == get_quotation_url(crm_deal, organization, settings, World, out)
    IN /\ Finish(w, [NoOp EXCEPT !.op = "get_quotation_url",
                                 !.enabled = settings.enabled,
                                 !.colocated = settings.is_erpnext_in_the_current_site,
                                 !.crm_deal = crm_deal,
                                 !.organization = organization])
       /\ UNCHANGED <<settings, installed_apps>>

\* a deal is updated with the given status: create_customer_in_erpnext runs
CreateCustomer(name, status, out) ==
    LET doc == [DealDoc(name) EXCEPT !.status = status]
        w == create_customer_in_erpnext(doc, settings, World, out)
    IN /\ Finish(w, [NoOp EXCEPT !.op = "create_customer_in_erpnext",
                                 !.enabled = settings.enabled,
                                 !.colocated = settings.is_erpnext_in_the_current_site,
                                 !.crm_deal = name,
                                 !.organization = doc.organization,
                                 !.status = status])
       /\ UNCHANGED <<settings, installed_apps>>

\* the operations that reach a call to the ERPNext API, local or remote
validate_calls_api(self, apps) ==
    self.enabled /\ ~validate_if_erpnext_installed(self, apps, World).raised

get_quotation_url_calls_api(crm_deal, erpnext_crm_settings) ==
    /\ erpnext_crm_settings.enabled
    /\ ~erpnext_crm_settings.is_erpnext_in_the_current_site
    /\ crm_deal \in DealIds

Next ==
    \/ \E enabled \in BOOLEAN, colocated \in BOOLEAN :
         \E out \in IF validate_calls_api(
                         [settings EXCEPT !.enabled = enabled,
                             !.is_erpnext_in_the_current_site = colocated],
                         installed_apps)
                    THEN Outcomes({""}) ELSE {NoCall} :
           Validate(enabled, colocated, out)
    \/ \E crm_deal \in DealIds \cup {MissingDeal}, organization \in Organizations :
         \E out \in IF get_quotation_url_calls_api(crm_deal, settings)
                    THEN Outcomes(ProspectIds) ELSE {NoCall} :
           GetQuotationUrl(crm_deal, organization, out)
    \/ \E name \in DealIds, status \in Statuses :
         \E out \in IF customer_is_due(settings, [DealDoc(name) EXCEPT !.status = status])
                    THEN Outcomes({""}) ELSE {NoCall} :
           CreateCustomer(name, status, out)

Spec == Init /\ [][Next]_vars

----------------------------------------------------------------------------
(* Reading an operation's record and the URL it returned *)

\* the calls of an operation to the ERPNext API, local or remote
ApiCalls(calls) == SelectSeq(calls, LAMBDA c : c.backend \in {"local", "remote"})
CheckedInstalledApps(calls) ==
    \E i \in 1..Len(calls) : calls[i].method = "get_installed_apps"
MadePropertySetter(calls) ==
    \E i \in 1..Len(calls) : calls[i].method = "make_property_setter"
InsertedFormScript(calls) ==
    \E i \in 1..Len(calls) : calls[i].backend = "db" /\ calls[i].method = "insert"

\* the key=value pairs of a query, cut at "&" and "="
RECURSIVE ParsePairs(_)
ParsePairs(tokens) ==
    IF Len(tokens) < 3 \/ tokens[2] # "=" THEN <<>>
    ELSE <<<<tokens[1], tokens[3]>>>>
         \o (IF Len(tokens) >= 4 /\ tokens[4] = "&"
             THEN ParsePairs(SubSeq(tokens, 5, Len(tokens)))
             ELSE <<>>)

\* the query of a URL: what follows its "?"
ParseQuery(url) ==
    IF \E i \in 1..Len(url) : url[i] = "?"
    THEN LET q == CHOOSE i \in 1..Len(url) :
                      url[i] = "?" /\ \A j \in 1..(i - 1) : url[j] # "?"
         IN ParsePairs(SubSeq(url, q + 1, Len(url)))
    ELSE <<>>

\* the state the operations act on, the record of the last operation aside
Tables == <<propertySetters, formScripts, erpLocal, erpRemote, errorLog,
            psMade, fsInserted>>

----------------------------------------------------------------------------
(* Properties *)
(* A property of the form [][P => Q]_vars speaks of the steps that change   *)
(* the state; each of them is one operation, and lastOp' is its record.     *)

\* C1: an operation that runs with enabled = false changes nothing: validate
\* makes no call (no installed-app check fails, no property setter, no custom
\* fields locally or remotely, no form script), create_customer_in_erpnext
\* makes no call whatever the status, and get_quotation_url raises the "not
\* integrated" error, makes no call and returns no URL; so for both values of
\* the co-location flag.
C1_DisabledIsNoOp ==
    [][~lastOp'.enabled =>
          /\ UNCHANGED Tables
          /\ lastOp'.calls = <<>>
          /\ lastOp'.logged = <<>>
          /\ lastOp'.url = <<>>
          /\ lastOp'.op = "validate" => ~lastOp'.raised
          /\ lastOp'.op = "create_customer_in_erpnext" => ~lastOp'.raised
          /\ lastOp'.op = "get_quotation_url" =>
                 lastOp'.raised /\ lastOp'.msg = NotIntegratedMsg]_vars

\* a deal is won while the integration, once enabled with a remote site, is
\* disabled and set to the current site
C1_Witness ==
    /\ lastOp.op = "create_customer_in_erpnext"
    /\ lastOp.status = "Won"
    /\ ~lastOp.enabled
    /\ lastOp.colocated
    /\ erpRemote.custom_fields
    /\ lastOp.calls = <<>>

\* C2: validate with enabled = true and co-located = true on a site where
\* erpnext is not installed raises the "not installed" error and runs none of
\* the later steps: no property setter, no custom-field call, no form script.
C2_NotInstalledStops ==
    [][(/\ lastOp'.op = "validate"
        /\ lastOp'.enabled
        /\ lastOp'.colocated
        /\ "erpnext" \notin installed_apps) =>
          /\ lastOp'.raised
          /\ lastOp'.msg = NotInstalledMsg
          /\ lastOp'.calls = <<Call("frappe", "get_installed_apps", NoArgs)>>
          /\ UNCHANGED Tables
          /\ UNCHANGED settings]_vars

C2_Witness ==
    /\ lastOp.op = "validate"
    /\ lastOp.enabled
    /\ lastOp.colocated
    /\ "erpnext" \notin installed_apps
    /\ lastOp.raised
    /\ lastOp.msg = NotInstalledMsg
    /\ formScripts = {}

\* C3: make_property_setter has been called at most once and the table holds
\* at most one document named Quotation-quotation_to-link_filters; a validate
\* that finds the name present does not make the call and raises nothing on
\* that account, and a validate for a remote site never makes the call.
C3_PropertySetterOnce ==
    [][lastOp'.op = "validate" =>
          /\ psMade' <= 1
          /\ Cardinality({d \in propertySetters' : d.name = QuotationFilterName}) <= 1
          /\ MadePropertySetter(lastOp'.calls) =>
                 /\ lastOp'.enabled
                 /\ lastOp'.colocated
                 /\ ~Exists(propertySetters, QuotationFilterName)
          /\ (Exists(propertySetters, QuotationFilterName) /\ lastOp'.raised) =>
                 \/ lastOp'.msg = NotInstalledMsg
                 \/ /\ ApiCalls(lastOp'.calls) # <<>>
                    /\ lastOp'.exc \in ExcTexts]_vars

\* a second validate for the current site that found the property setter
C3_Witness ==
    /\ lastOp.op = "validate"
    /\ lastOp.enabled
    /\ lastOp.colocated
    /\ ~lastOp.raised
    /\ ~MadePropertySetter(lastOp.calls)
    /\ psMade = 1
    /\ Exists(propertySetters, QuotationFilterName)

\* C4: the form script has been inserted at most once, and a stored document
\* named "Create Quotation from CRM Deal" is never changed by a later step,
\* also when its body is not the one get_crm_form_script returns.
C4_FormScriptOnce ==
    [][/\ fsInserted' <= 1
       /\ \A doc \in formScripts :
              doc.name = FormScriptName => formScripts' = formScripts]_vars

\* validate has run all its steps and the stale body is still the stored one
C4_Witness ==
    /\ lastOp.op = "validate"
    /\ lastOp.enabled
    /\ ~lastOp.raised
    /\ ApiCalls(lastOp.calls) # <<>>
    /\ formScripts = {StaleFormScriptDoc}
    /\ StaleFormScript # get_crm_form_script

\* C5: with enabled = true and co-located = true, get_quotation_url(d, o)
\* returns a URL whose query is quotation_to=CRM Deal, crm_deal=d,
\* party_name=d whatever o is, makes no call and changes no local or remote
\* state.
C5_LocalUrl ==
    [][(/\ lastOp'.op = "get_quotation_url"
        /\ lastOp'.enabled
        /\ lastOp'.colocated) =>
          /\ ~lastOp'.raised
          /\ ParseQuery(lastOp'.url) =
                 << <<"quotation_to", "CRM Deal">>,
                    <<"crm_deal", lastOp'.crm_deal>>,
                    <<"party_name", lastOp'.crm_deal>> >>
          /\ lastOp'.calls = <<>>
          /\ UNCHANGED Tables
          /\ UNCHANGED settings]_vars

\* the URL of a deal asked for with an organization that is not the deal's
C5_Witness ==
    /\ lastOp.op = "get_quotation_url"
    /\ lastOp.enabled
    /\ lastOp.colocated
    /\ lastOp.crm_deal \in DealIds
    /\ lastOp.organization # DealDoc(lastOp.crm_deal).organization
    /\ lastOp.url # <<>>

\* C6: with enabled = true and co-located = false, a get_quotation_url that
\* returns a URL has made exactly one call, the remote
\* create_prospect_against_crm_deal for that deal, which returned before the
\* URL was built: the query is quotation_to=Prospect, crm_deal=d and
\* party_name = the identifier that call returned; when the call raises, no
\* URL is returned.
C6_RemoteUrl ==
    (lastOp.op = "get_quotation_url" /\ lastOp.enabled /\ ~lastOp.colocated) =>
        /\ lastOp.raised <=> lastOp.url = <<>>
        /\ lastOp.url # <<>> =>
               /\ Len(lastOp.calls) = 1
               /\ lastOp.calls[1].backend = "remote"
               /\ lastOp.calls[1].site = settings.erpnext_site_url
               /\ lastOp.calls[1].method = ProspectMethod
               /\ lastOp.calls[1].args.crm_deal = lastOp.crm_deal
               /\ lastOp.ret \in ProspectIds
               /\ lastOp.crm_deal \in erpRemote.prospects
               /\ ParseQuery(lastOp.url) =
                      << <<"quotation_to", "Prospect">>,
                         <<"crm_deal", lastOp.crm_deal>>,
                         <<"party_name", lastOp.ret>> >>
        /\ lastOp.exc \in ExcTexts => lastOp.url = <<>>

C6_Witness ==
    /\ lastOp.op = "get_quotation_url"
    /\ lastOp.enabled
    /\ ~lastOp.colocated
    /\ lastOp.url # <<>>
    /\ lastOp.ret = "PROSPECT-B"

\* C7: create_customer_in_erpnext calls create_customer exactly when the
\* integration is enabled and the status is the string "Won"; then it makes
\* one call, locally when co-located and remotely otherwise; for every other
\* status ("Open", "Lost", "won") it makes no call.
C7_CustomerOnlyWhenWon ==
    lastOp.op = "create_customer_in_erpnext" =>
        IF lastOp.enabled /\ lastOp.status = "Won"
        THEN /\ Len(lastOp.calls) = 1
             /\ lastOp.calls[1].method = CustomerMethod
             /\ lastOp.calls[1].args.crm_deal = lastOp.crm_deal
             /\ lastOp.calls[1].backend =
                    IF lastOp.colocated THEN "local" ELSE "remote"
        ELSE lastOp.calls = <<>>

C7_Witness ==
    /\ lastOp.op = "create_customer_in_erpnext"
    /\ lastOp.enabled
    /\ lastOp.colocated
    /\ lastOp.status = "Won"
    /\ Len(lastOp.calls) = 1
    /\ lastOp.crm_deal \in erpLocal.customers

\* the outcomes of a call that raises
Failures == {out \in Outcomes(ProspectIds) : ~out.ok}

\* C8: when the remote call of prospect or customer creation raises, the
\* message the user sees is the fixed message of the operation and the text
\* of the exception is in the error log alone, in the one entry the failure
\* adds; two failures that differ in the text of the exception only leave
\* the user with the same message.
C8_GenericMessage ==
    /\ (/\ lastOp.op \in {"get_quotation_url", "create_customer_in_erpnext"}
        /\ lastOp.raised
        /\ lastOp.calls # <<>>
        /\ lastOp.calls[Len(lastOp.calls)].backend = "remote") =>
           /\ lastOp.exc \in ExcTexts
           /\ lastOp.msg = IF lastOp.op = "get_quotation_url"
                           THEN ProspectErrorMsg ELSE CustomerErrorMsg
           /\ lastOp.msg # lastOp.exc
           /\ Len(lastOp.logged) = 1
           /\ lastOp.logged[1].traceback = lastOp.exc
    /\ (settings.enabled /\ ~settings.is_erpnext_in_the_current_site) =>
           \A o1 \in Failures, o2 \in Failures :
               \A crm_deal \in DealIds :
                   LET doc == [DealDoc(crm_deal) EXCEPT !.status = "Won"]
                       p1 == get_quotation_url(crm_deal, "Acme", settings, World, o1)
                       p2 == get_quotation_url(crm_deal, "Acme", settings, World, o2)
                       c1 == create_customer_in_erpnext(doc, settings, World, o1)
                       c2 == create_customer_in_erpnext(doc, settings, World, o2)
                   IN /\ p1.raised /\ p2.raised /\ p1.msg = p2.msg
                      /\ c1.raised /\ c2.raised /\ c1.msg = c2.msg
                      /\ Len(p1.errorLog) = Len(errorLog) + 1
                      /\ Len(c1.errorLog) = Len(errorLog) + 1

C8_Witness ==
    /\ lastOp.op = "create_customer_in_erpnext"
    /\ lastOp.raised
    /\ ~lastOp.colocated
    /\ lastOp.exc = "HTTP 417: duplicate name"
    /\ Len(lastOp.logged) = 1
    /\ lastOp.msg = CustomerErrorMsg

\* a validate that raised in its custom-field step: the last thing it did is
\* the call of create_custom_fields_for_frappe_crm, local or remote
FailedInCustomFields(op) ==
    /\ op.op = "validate"
    /\ op.enabled
    /\ op.raised
    /\ ApiCalls(op.calls) # <<>>
    /\ op.calls[Len(op.calls)].method = CustomFieldsMethod

\* C9, as claimed: a validate that fails in its custom-field step, co-located
\* or remote, has created neither the property setter nor the form script.
C9_FailedValidateCreatedNothing ==
    FailedInCustomFields(lastOp) =>
        /\ ~MadePropertySetter(lastOp.calls)
        /\ ~InsertedFormScript(lastOp.calls)

\* C9, amended: an operation that raises has made at most one call to the
\* ERPNext API, has left the form scripts and the stored settings as they
\* were and, unless it is a validate for the current site, the property
\* setters too; a validate that fails in its custom-field step has not
\* created the form script, for a remote site it has not created the property
\* setter either, and for the current site it has created the property setter
\* in its earlier step exactly when there was none.
C9_FailedValidateKeepsFormScript ==
    [][lastOp'.raised =>
          /\ Len(ApiCalls(lastOp'.calls)) <= 1
          /\ formScripts' = formScripts
          /\ fsInserted' = fsInserted
          /\ ~InsertedFormScript(lastOp'.calls)
          /\ settings' = settings
          /\ (lastOp'.op # "validate" \/ ~lastOp'.colocated) =>
                 /\ propertySetters' = propertySetters
                 /\ psMade' = psMade
                 /\ ~MadePropertySetter(lastOp'.calls)
          /\ (FailedInCustomFields(lastOp') /\ lastOp'.colocated) =>
                 (MadePropertySetter(lastOp'.calls)
                      <=> ~Exists(propertySetters, QuotationFilterName))]_vars

\* the first validate for the current site fails in its custom-field step and
\* leaves the property setter it made behind
C9_Witness ==
    /\ FailedInCustomFields(lastOp)
    /\ lastOp.colocated
    /\ MadePropertySetter(lastOp.calls)
    /\ Exists(propertySetters, QuotationFilterName)
    /\ ~settings.enabled
    /\ fsInserted = 0

\* the doctypes a property setter lets quotation_to name
AllowedPartyTypes(doc) == {doc.value[i] : i \in 1..Len(doc.value)}

\* the value of a key in the query of a URL
QueryValue(url, key) ==
    LET pairs == ParseQuery(url)
        i == CHOOSE i \in 1..Len(pairs) : pairs[i][1] = key
    IN pairs[i][2]

\* C10: for the current site, the quotation_to of the URL get_quotation_url
\* returns is one of the doctypes the property setter made by validate lets
\* quotation_to name.
C10_UrlPartyTypeAllowed ==
    (/\ lastOp.op = "get_quotation_url"
     /\ lastOp.enabled
     /\ lastOp.colocated
     /\ lastOp.url # <<>>) =>
        \A doc \in propertySetters :
            doc.name = QuotationFilterName =>
                QueryValue(lastOp.url, "quotation_to") \in AllowedPartyTypes(doc)

====
